---- MODULE Spec2Model ----
(***************************************************************************)
(* Model of dft/vrank-geq1.c: the solver that peels one vector dimension  *)
(* of a DFT problem into a strided loop around a child plan.               *)
(*                                                                         *)
(* The harnesses below share the definitions:                              *)
(*   SpecScore     applies applicable() and score() to drawn inputs;       *)
(*   SpecPlan      runs mkplan(), recursing through the planner;           *)
(*   SpecExec      runs apply(), awake() and destroy() on a plan chain;    *)
(*   SpecSession   runs mkplan() and then apply() on the plan it made;     *)
(*   SpecRegister  runs dft_vrank_geq1_register() and then score();        *)
(*   SpecFrame     runs mkplan() with calls of applicable() and score().   *)
(***************************************************************************)
EXTENDS Integers, Sequences, FiniteSets, TLC

\* ------------------------------------------------------------- bounds
MaxVRank == 2       \* largest finite vector rank drawn
MaxLen == 2         \* largest dimension length drawn
MaxStride == 1      \* largest stride magnitude drawn
UintBits == 8       \* width of uint in the model (32 in the build), scaled
                    \* down so that every address fits the checker's integers
ALGN == 2           \* alignment unit of alignment_of, in elements
MaxCost == 2        \* largest operation count of a leaf plan drawn
MaxAwake == 2       \* most calls of awake made on the root plan

\* ---------------------------------------------------- machine integers
\* uint is an unsigned int: arithmetic modulo 2^UintBits
UINT_MOD == 2 ^ UintBits
\* RNK_MINFTY is ((uint) -1), the rank of the "infinite" tensor
RNK_MINFTY == UINT_MOD - 1
FINITE_RNK(rnk) == rnk # RNK_MINFTY

\* ------------------------------------------------------------ planner
IMPATIENT == "IMPATIENT"
FORCE_VRECURSE == "FORCE_VRECURSE"
CLASSIC_VRECURSE == "CLASSIC_VRECURSE"
POSSIBLY_UNALIGNED == "POSSIBLY_UNALIGNED"
\* plnr->flags is a bit set; a set of flag names here
AllFlags == {IMPATIENT, FORCE_VRECURSE, CLASSIC_VRECURSE, POSSIBLY_UNALIGNED}

BAD == "BAD"
UGLY == "UGLY"
GOOD == "GOOD"

\* ------------------------------------------------------------ tensors
\* iodim: {n, is, os}
iodim(n, is, os) == [n |-> n, is |-> is, os |-> os]
\* tensor: {rnk, dims}; dims is 1-based here, 0-based in the C code
tensor(dims) == [rnk |-> Len(dims), dims |-> dims]
InfiniteTensor == [rnk |-> RNK_MINFTY, dims |-> <<>>]

imin(a, b) == IF a < b THEN a ELSE b
uimax(a, b) == IF a > b THEN a ELSE b
iabs(a) == IF a < 0 THEN -a ELSE a

RECURSIVE MaxIndexFrom(_, _)
MaxIndexFrom(dims, i) ==
    IF i > Len(dims) THEN 0
    ELSE (dims[i].n - 1) * uimax(iabs(dims[i].is), iabs(dims[i].os))
         + MaxIndexFrom(dims, i + 1)
\* the maximum flat index spanned by a tensor
tensor_max_index(sz) == MaxIndexFrom(sz.dims, 1)

tensor_copy(sz) == [rnk |-> sz.rnk, dims |-> sz.dims]
\* the tensor without dimension except_dim (0-based), order kept
tensor_copy_except(sz, except_dim) ==
    [rnk |-> sz.rnk - 1,
     dims |-> [i \in 1..(sz.rnk - 1) |->
                 IF i <= except_dim THEN sz.dims[i] ELSE sz.dims[i + 1]]]

\* ----------------------------------------------------------- problems
\* problem_dft: {sz, vecsz, ri, ii, ro, io}; kind tells DFTP(p)
mkproblem_dft_d(sz, vecsz, ri, ii, ro, io) ==
    [kind |-> "dft", sz |-> sz, vecsz |-> vecsz,
     ri |-> ri, ii |-> ii, ro |-> ro, io |-> io]
DFTP(p) == p.kind = "dft"

\* ------------------------------------------------------------ solvers
\* static const int buddies[] = { 1, -1 }
buddies == <<1, -1>>
nbuddies == Len(buddies)
\* the solver below as it would be preferring the first candidate always
mksolver_first(vecloop_dim, bud, nbud) ==
    [vecloop_dim |-> bud[1], buddies |-> bud, nbuddies |-> nbud]
\* S: {vecloop_dim, buddies, nbuddies}
mksolver(vecloop_dim, bud, nbud) ==
    [vecloop_dim |-> vecloop_dim, buddies |-> bud, nbuddies |-> nbud]
\* the solvers dft_vrank_geq1_register hands to the planner, in order
Registered == [i \in 1..nbuddies |-> mksolver(buddies[i], buddies, nbuddies)]
Solvers == {Registered[i] : i \in 1..nbuddies}

\* ------------------------------------------------- dimension selector
\* The selector is an external, deterministic function.  Its answers are
\* drawn once per argument tuple and remembered in `picked`.
PickArgs(vecloop_dim, bud, nbud, vecsz, oop) ==
    <<vecloop_dim, bud, nbud, vecsz, oop>>
\* what the selector may answer for a vector shape: failure or an index
PickOutcomes(vecsz) ==
    {[ok |-> FALSE, d |-> 0]}
    \cup {[ok |-> TRUE, d |-> i] : i \in 0..(vecsz.rnk - 1)}
\* static pickdim(): the arguments the solver passes to X(pickdim)
pickdim(ego, vecsz, oop) ==
    PickArgs(ego.vecloop_dim, ego.buddies, ego.nbuddies, vecsz, oop)

\* does applicable() reach the call of pickdim? (&& short-circuits)
CallsPickdim(p) == DFTP(p) /\ FINITE_RNK(p.vecsz.rnk) /\ p.vecsz.rnk > 0
ApplicableOop(p) == p.ri # p.ro
\* applicable() as it would be without the call of pickdim
applicable_nopick(ego, p, pk) ==
    IF DFTP(p)
    THEN [ok |-> FINITE_RNK(p.vecsz.rnk) /\ p.vecsz.rnk > 0, dp |-> pk.d]
    ELSE [ok |-> FALSE, dp |-> 0]
\* applicable(): pk is the selector's answer to pickdim(ego, vecsz, oop)
applicable(ego, p, pk) ==
    IF DFTP(p)
    THEN [ok |-> /\ FINITE_RNK(p.vecsz.rnk)
                 /\ p.vecsz.rnk > 0
                 /\ pk.ok,
          dp |-> pk.d]
    ELSE [ok |-> FALSE, dp |-> 0]

\* the test below as it would be with the stride converted to uint
VectorStrideLessThanSize_uint(p, d) ==
    p.sz.rnk > 1 /\ (imin(d.is, d.os) % UINT_MOD) < tensor_max_index(p.sz)
\* the test of score()'s second heuristic: the transform is
\* multi-dimensional and the vector stride is less than the transform size
VectorStrideLessThanSize(p, d) ==
    p.sz.rnk > 1 /\ imin(d.is, d.os) < tensor_max_index(p.sz)

\* score() as it would be with the IMPATIENT test after the heuristics
score_impatient_last(ego, p, plnr_flags, pk) ==
    LET a == applicable(ego, p, pk)
        d == p.vecsz.dims[a.dp + 1]
    IN  IF ~a.ok THEN BAD
        ELSE IF FORCE_VRECURSE \in plnr_flags /\ p.vecsz.rnk = 1
        THEN UGLY
        ELSE IF VectorStrideLessThanSize(p, d)
        THEN UGLY
        ELSE IF p.sz.rnk = 0 /\ p.vecsz.rnk = 1
        THEN UGLY
        ELSE IF IMPATIENT \in plnr_flags /\ ego.vecloop_dim # ego.buddies[1]
        THEN BAD
        ELSE GOOD
\* score() as it would be without the rank-0 vrank-1 heuristic
score_norank0(ego, p, plnr_flags, pk) ==
    LET a == applicable(ego, p, pk)
        d == p.vecsz.dims[a.dp + 1]
    IN  IF ~a.ok THEN BAD
        ELSE IF IMPATIENT \in plnr_flags /\ ego.vecloop_dim # ego.buddies[1]
        THEN BAD
        ELSE IF FORCE_VRECURSE \in plnr_flags /\ p.vecsz.rnk = 1
        THEN UGLY
        ELSE IF VectorStrideLessThanSize(p, d)
        THEN UGLY
        ELSE GOOD
\* score()
score(ego, p, plnr_flags, pk) ==
    LET a == applicable(ego, p, pk)
        vdim == a.dp
        d == p.vecsz.dims[vdim + 1]
    IN  IF ~a.ok THEN BAD
        ELSE IF IMPATIENT \in plnr_flags /\ ego.vecloop_dim # ego.buddies[1]
        THEN BAD
        ELSE IF FORCE_VRECURSE \in plnr_flags /\ p.vecsz.rnk = 1
        THEN UGLY
        ELSE IF VectorStrideLessThanSize(p, d)
        THEN UGLY
        ELSE IF p.sz.rnk = 0 /\ p.vecsz.rnk = 1
        THEN UGLY
        ELSE GOOD


\* ------------------------------------------------------------- mkplan
\* alignment_of(address): non-zero when the address is misaligned
alignment_of(a) == a % ALGN

\* the rule below as it would be clearing CLASSIC_VRECURSE alone
mkplan_vrecurse_classic_only(p, plnr_flags) ==
    IF p.vecsz.rnk = 1 /\ CLASSIC_VRECURSE \in plnr_flags
    THEN plnr_flags \ {CLASSIC_VRECURSE}
    ELSE plnr_flags
\* the rule below as it would be clearing FORCE_VRECURSE on every problem
\* of vector rank 1
mkplan_vrecurse_force_always(p, plnr_flags) ==
    IF p.vecsz.rnk = 1
    THEN IF CLASSIC_VRECURSE \in plnr_flags
         THEN plnr_flags \ {CLASSIC_VRECURSE, FORCE_VRECURSE}
         ELSE plnr_flags \ {FORCE_VRECURSE}
    ELSE plnr_flags
\* mkplan(), "use it or lose it": the flags after the fftw2 vector
\* recursion rule
mkplan_vrecurse(p, plnr_flags) ==
    IF p.vecsz.rnk = 1 /\ CLASSIC_VRECURSE \in plnr_flags
    THEN plnr_flags \ {CLASSIC_VRECURSE, FORCE_VRECURSE}
    ELSE plnr_flags

\* the rule below as it would be without the test of the length
mkplan_unaligned_anylen(p, d, plnr_flags) ==
    IF \/ alignment_of(p.ri + d.is) # 0
       \/ alignment_of(p.ii + d.is) # 0
       \/ alignment_of(p.ro + d.os) # 0
       \/ alignment_of(p.io + d.os) # 0
    THEN plnr_flags \cup {POSSIBLY_UNALIGNED}
    ELSE plnr_flags
\* mkplan(): the flags after recording whether the vector loop would make
\* the input or the output unaligned
mkplan_unaligned(p, d, plnr_flags) ==
    IF d.n > 0
    THEN IF \/ alignment_of(p.ri + d.is) # 0
            \/ alignment_of(p.ii + d.is) # 0
            \/ alignment_of(p.ro + d.os) # 0
            \/ alignment_of(p.io + d.os) # 0
         THEN plnr_flags \cup {POSSIBLY_UNALIGNED}
         ELSE plnr_flags
    ELSE plnr_flags

\* the problem below as it would be with the first dimension removed
mkplan_cldp_first(p, vdim) ==
    mkproblem_dft_d(tensor_copy(p.sz), tensor_copy_except(p.vecsz, 0),
                    p.ri, p.ii, p.ro, p.io)
\* the problem below as it would be with the whole vector shape copied
mkplan_cldp_keepvec(p, vdim) ==
    mkproblem_dft_d(tensor_copy(p.sz), tensor_copy(p.vecsz),
                    p.ri, p.ii, p.ro, p.io)
\* mkplan(): the problem handed to the planner
mkplan_cldp(p, vdim) ==
    mkproblem_dft_d(tensor_copy(p.sz), tensor_copy_except(p.vecsz, vdim),
                    p.ri, p.ii, p.ro, p.io)

\* ops_mul(a, ops): the operation count scaled by a
ops_mul(a, ops) == a * ops

\* the plan below as it would be with the child's cost taken over unscaled
mkplan_pln_childcost(ego, d, cld, cldplan) ==
    [kind |-> "vrank-geq1", cld |-> cld, vl |-> d.n, ivs |-> d.is,
     ovs |-> d.os, solver |-> ego,
     ops |-> ops_mul(d.n, cldplan.ops), pcost |-> cldplan.pcost]
\* P: {cld, vl, ivs, ovs, solver} and the plan's ops and pcost.
\* mkplan(): the plan made around child plan cld (cldplan is *cld)
mkplan_pln(ego, d, cld, cldplan) ==
    [kind |-> "vrank-geq1", cld |-> cld, vl |-> d.n, ivs |-> d.is,
     ovs |-> d.os, solver |-> ego,
     ops |-> ops_mul(d.n, cldplan.ops), pcost |-> d.n * cldplan.pcost]

\* a plan of some other solver: it has no child here
LeafPlan(c) ==
    [kind |-> "leaf", cld |-> 0, vl |-> 0, ivs |-> 0, ovs |-> 0,
     solver |-> [vecloop_dim |-> 0, buddies |-> <<>>, nbuddies |-> 0],
     ops |-> c, pcost |-> c + 1]

\* -------------------------------------------------------------- state
VARIABLES
    p,        \* the problem handed to the solver (the session's problem)
    flags,    \* plnr->flags
    picked,   \* the selector's answers so far: a set of <<args, answer>>
    out,      \* the last call of applicable/score and what it returned
    probs,    \* the problem store: probs[id] = {val, live, ndestroy}
    plans,    \* the plans allocated: plans[id]
    stack,    \* the calls of mkplan in progress, innermost last
    last,     \* the call of mkplan that returned in the last step, if any
    ptrbits,  \* the width of a pointer in the build
    phase,    \* what has been done with the root plan
    xstack,   \* the calls of apply and destroy in progress, innermost last
    calls,    \* the calls made of child plans' apply, in order
    dlog,     \* the awake and destroy operations and releases of plans,
              \* in order
    slvs,     \* the solvers registered with the planner, in order
    regi      \* the counter i of dft_vrank_geq1_register

execVars == <<ptrbits, phase, xstack, calls, dlog>>
regVars == <<slvs, regi>>
vars == <<p, flags, picked, out, probs, plans, stack, last,
          ptrbits, phase, xstack, calls, dlog, slvs, regi>>

\* ------------------------------------------------------ drawn inputs
Lens == 0..MaxLen
\* the extreme strides of either sign, and zero
Strides == {-MaxStride, 0, MaxStride}
RECURSIVE SeqsUpTo(_, _)
SeqsUpTo(S, k) ==
    IF k = 0 THEN {<<>>}
    ELSE LET shorter == SeqsUpTo(S, k - 1)
         IN  shorter \cup {Append(s, x) :
                             s \in {t \in shorter : Len(t) = k - 1}, x \in S}
\* vector dimensions for scoring: score() and applicable() never read n
ScoreVecDims == {iodim(MaxLen, is, os) : is \in Strides, os \in Strides}
CoreDims == {iodim(n, MaxStride, MaxStride) : n \in 1..MaxLen}
ScoreVecShapes == {tensor(ds) : ds \in SeqsUpTo(ScoreVecDims, MaxVRank)}
                  \cup {InfiniteTensor}
CoreShapes == {tensor(ds) : ds \in SeqsUpTo(CoreDims, 2)}
\* buffers <<ri, ii, ro, io>>: in place (ri = ro) and out of place
ScoreBuffers == {<<4, 5, 4, 5>>, <<4, 5, 8, 9>>}
OtherProblem == [kind |-> "other"]
\* the scenario of a rank-0 transform over one vector of 4, strides 8/8
ScenarioProblem ==
    mkproblem_dft_d(tensor(<<>>), tensor(<<iodim(4, 8, 8)>>), 4, 5, 8, 9)
ScoreProblems ==
    {mkproblem_dft_d(sz, vecsz, b[1], b[2], b[3], b[4]) :
        sz \in CoreShapes, vecsz \in ScoreVecShapes, b \in ScoreBuffers}
    \cup {OtherProblem, ScenarioProblem}

NoCall == [fn |-> "none"]
NoSolver == [vecloop_dim |-> 0, buddies |-> <<>>, nbuddies |-> 0]
NoReturn == [any |-> FALSE]
NoPick == [ok |-> FALSE, d |-> 0]
\* the plan operations are not exercised
ExecIdle ==
    /\ ptrbits = UintBits
    /\ phase = "idle"
    /\ xstack = <<>>
    /\ calls = <<>>
    /\ dlog = <<>>

\* dft_vrank_geq1_register has run on a planner without solvers
RegistrationDone ==
    /\ slvs = Registered
    /\ regi = nbuddies

\* the selector answers pk to args, consistently with its earlier answers
Pick(args, pk) ==
    /\ \A e \in picked : e[1] = args => e[2] = pk
    /\ picked' = picked \cup {<<args, pk>>}

\* ---------------------------------------- harness: applicable, score
InitScore ==
    /\ p \in ScoreProblems
    /\ flags \in SUBSET AllFlags
    /\ picked = {}
    /\ out = NoCall
    /\ probs = <<>>
    /\ plans = <<>>
    /\ stack = <<>>
    /\ last = NoReturn
    /\ ExecIdle
    /\ RegistrationDone

\* one call of applicable(ego, p, &dp)
ApplicableCall(ego) ==
    /\ out = NoCall
    /\ IF CallsPickdim(p)
       THEN \E pk \in PickOutcomes(p.vecsz) :
              /\ Pick(pickdim(ego, p.vecsz, ApplicableOop(p)), pk)
              /\ out' = [fn |-> "applicable", ego |-> ego,
                         res |-> applicable(ego, p, pk)]
       ELSE /\ picked' = picked
            /\ out' = [fn |-> "applicable", ego |-> ego,
                       res |-> applicable(ego, p, NoPick)]
    /\ UNCHANGED <<p, flags, probs, plans, stack, last>>
    /\ UNCHANGED execVars
    /\ UNCHANGED regVars

\* one call of score(ego, p, plnr)
ScoreCall(ego) ==
    /\ out = NoCall
    /\ IF CallsPickdim(p)
       THEN \E pk \in PickOutcomes(p.vecsz) :
              /\ Pick(pickdim(ego, p.vecsz, ApplicableOop(p)), pk)
              /\ out' = [fn |-> "score", ego |-> ego,
                         res |-> score(ego, p, flags, pk)]
       ELSE /\ picked' = picked
            /\ out' = [fn |-> "score", ego |-> ego,
                       res |-> score(ego, p, flags, NoPick)]
    /\ UNCHANGED <<p, flags, probs, plans, stack, last>>
    /\ UNCHANGED execVars
    /\ UNCHANGED regVars

NextScore ==
    \/ \E ego \in Solvers : ApplicableCall(ego)
    \/ \E ego \in Solvers : ScoreCall(ego)

SpecScore == InitScore /\ [][NextScore]_vars

\* ------------------------------------------------- harness: mkplan
\* A planning session: the planner is asked to solve p.  Solving a problem,
\* the planner goes through the registered solvers in order and calls
\* mkplan of each or passes it over; it returns the first plan it gets,
\* or else the plan of another solver or no plan.  mkplan asks the planner
\* in turn to solve the reduced problem.
\* vector dimensions: empty or of the largest length; equal input and
\* output strides of either sign or zero, or different ones
PlanStrides == {<<s, s>> : s \in Strides} \cup {<<0, MaxStride>>}
PlanVecDims == {iodim(n, s[1], s[2]) : n \in {0, MaxLen}, s \in PlanStrides}
PlanVecShapes == {tensor(ds) : ds \in SeqsUpTo(PlanVecDims, MaxVRank)}
                 \cup {InfiniteTensor}
PlanCoreShapes ==
    {tensor(<<>>), tensor(<<iodim(MaxLen, MaxStride, MaxStride)>>)}
\* buffers <<ri, ii, ro, io>>: aligned in place, and out of place with a
\* misaligned imaginary input
PlanBuffers == {<<4, 6, 4, 6>>, <<4, 5, 8, 10>>}
PlanProblems ==
    {mkproblem_dft_d(sz, vecsz, b[1], b[2], b[3], b[4]) :
        sz \in PlanCoreShapes, vecsz \in PlanVecShapes, b \in PlanBuffers}
    \cup {OtherProblem}

NoDim == iodim(0, 0, 0)
\* the planner's own frame: the session's MKPLAN(plnr, p)
RootFrame(f) ==
    [kind |-> "root", ego |-> NoSolver, p |-> 0, pval |-> OtherProblem,
     sel |-> NoPick, vdim |-> 0, d |-> NoDim, cldp |-> 1, cld |-> 0,
     pc |-> "solve", next |-> 1, flags_in |-> f, nplans_in |-> 0]

InitPlan ==
    /\ p \in PlanProblems
    /\ flags \in SUBSET AllFlags
    /\ picked = {}
    /\ out = NoCall
    /\ probs = <<[val |-> p, live |-> TRUE, ndestroy |-> 0]>>
    /\ plans = <<>>
    /\ stack = <<RootFrame(flags)>>
    /\ last = NoReturn
    /\ ExecIdle
    /\ RegistrationDone

\* a freed slot of the problem store keeps the count of its releases
Freed(slot) == [val |-> OtherProblem, live |-> FALSE,
                ndestroy |-> slot.ndestroy + 1]
\* allocation takes the first slot that is not live, or a new one
NewProblemId ==
    IF \E i \in 1..Len(probs) : ~probs[i].live
    THEN CHOOSE i \in 1..Len(probs) :
           ~probs[i].live /\ \A j \in 1..(i - 1) : probs[j].live
    ELSE Len(probs) + 1
AllocProblem(val) ==
    [i \in 1..(IF NewProblemId > Len(probs) THEN NewProblemId ELSE Len(probs)) |->
        IF i = NewProblemId THEN [val |-> val, live |-> TRUE, ndestroy |-> 0]
        ELSE probs[i]]

Top == stack[Len(stack)]
SetTop(f) == [stack EXCEPT ![Len(stack)] = f]

\* the planner passes over the next registered solver
PlannerSkip ==
    /\ stack # <<>>
    /\ Top.pc = "solve"
    /\ Top.next <= nbuddies
    /\ stack' = SetTop([Top EXCEPT !.next = @ + 1])
    /\ last' = NoReturn
    /\ UNCHANGED <<p, flags, picked, out, probs, plans>>
    /\ UNCHANGED execVars
    /\ UNCHANGED regVars

\* MKPLAN(plnr, cldp) finds no plan
PlannerNoPlan ==
    /\ stack # <<>>
    /\ Top.pc = "solve"
    /\ Top.next > nbuddies
    /\ stack' = SetTop([Top EXCEPT !.cld = 0, !.pc = "solved"])
    /\ last' = NoReturn
    /\ UNCHANGED <<p, flags, picked, out, probs, plans>>
    /\ UNCHANGED execVars
    /\ UNCHANGED regVars

\* MKPLAN(plnr, cldp) returns the plan of another solver
PlannerLeafPlan(c) ==
    /\ stack # <<>>
    /\ Top.pc = "solve"
    /\ Top.next > nbuddies
    /\ plans' = Append(plans, LeafPlan(c))
    /\ stack' = SetTop([Top EXCEPT !.cld = Len(plans) + 1, !.pc = "solved"])
    /\ last' = NoReturn
    /\ UNCHANGED <<p, flags, picked, out, probs>>
    /\ UNCHANGED execVars
    /\ UNCHANGED regVars

\* mkplan() as it would be with the flags updated ahead of the test of
\* applicable()
MkplanEnter_flags_first(ego, pk) ==
    LET q == probs[Top.cldp].val
        a == applicable(ego, q, pk)
        caller == [Top EXCEPT !.next = @ + 1]
    IN  IF ~a.ok
        THEN /\ stack' = SetTop(caller)
             /\ last' = [any |-> TRUE, ego |-> ego, p |-> Top.cldp,
                         pval |-> q, applicable |-> FALSE, sel |-> pk,
                         vdim |-> 0,
                         d |-> NoDim, cldp |-> 0, cld |-> 0, result |-> 0,
                         flags_in |-> flags, nplans_in |-> Len(plans)]
             /\ flags' = IF CallsPickdim(q) THEN mkplan_vrecurse(q, flags)
                         ELSE flags
             /\ UNCHANGED <<probs, plans>>
        ELSE LET vdim == a.dp
                 d == q.vecsz.dims[vdim + 1]
             IN  /\ flags' = mkplan_unaligned(q, d, mkplan_vrecurse(q, flags))
                 /\ probs' = AllocProblem(mkplan_cldp(q, vdim))
                 /\ stack' = Append(SetTop(caller),
                        [kind |-> "mkplan", ego |-> ego, p |-> Top.cldp,
                         pval |-> q, sel |-> pk, vdim |-> vdim, d |-> d,
                         cldp |-> NewProblemId, cld |-> 0, pc |-> "solve",
                         next |-> 1, flags_in |-> flags,
                         nplans_in |-> Len(plans)])
                 /\ last' = NoReturn
                 /\ UNCHANGED plans
\* mkplan(ego, q, plnr) up to its call of MKPLAN, where q is the problem
\* the planner is solving and pk the selector's answer; when q is not
\* applicable the call returns (plan *) 0 at once
MkplanEnter(ego, pk) ==
    LET q == probs[Top.cldp].val
        a == applicable(ego, q, pk)
        caller == [Top EXCEPT !.next = @ + 1]
    IN  IF ~a.ok
        THEN /\ stack' = SetTop(caller)
             /\ last' = [any |-> TRUE, ego |-> ego, p |-> Top.cldp,
                         pval |-> q, applicable |-> FALSE, sel |-> pk,
                         vdim |-> 0,
                         d |-> NoDim, cldp |-> 0, cld |-> 0, result |-> 0,
                         flags_in |-> flags, nplans_in |-> Len(plans)]
             /\ UNCHANGED <<flags, probs, plans>>
        ELSE LET vdim == a.dp
                 d == q.vecsz.dims[vdim + 1]
             IN  /\ flags' = mkplan_unaligned(q, d, mkplan_vrecurse(q, flags))
                 /\ probs' = AllocProblem(mkplan_cldp(q, vdim))
                 /\ stack' = Append(SetTop(caller),
                        [kind |-> "mkplan", ego |-> ego, p |-> Top.cldp,
                         pval |-> q, sel |-> pk, vdim |-> vdim, d |-> d,
                         cldp |-> NewProblemId, cld |-> 0, pc |-> "solve",
                         next |-> 1, flags_in |-> flags,
                         nplans_in |-> Len(plans)])
                 /\ last' = NoReturn
                 /\ UNCHANGED plans

\* the planner, solving a problem, calls mkplan of the next registered
\* solver on it; every answer the selector can give is followed
MkplanCall ==
    /\ stack # <<>>
    /\ Top.pc = "solve"
    /\ Top.next <= nbuddies
    /\ LET q == probs[Top.cldp].val
           ego == Registered[Top.next]
       IN  IF CallsPickdim(q)
           THEN \E pk \in PickOutcomes(q.vecsz) : MkplanEnter(ego, pk)
           ELSE MkplanEnter(ego, NoPick)
    /\ UNCHANGED <<p, picked, out>>
    /\ UNCHANGED execVars
    /\ UNCHANGED regVars

\* X(problem_destroy)(cldp)
problem_destroy(ps, id) == [ps EXCEPT ![id] = Freed(@)]
\* the release below as it would be on the failure path alone
mkplan_release_on_failure(ps, cldp, cld) ==
    IF cld = 0 THEN problem_destroy(ps, cldp) ELSE ps
\* mkplan(): the problem store once MKPLAN has returned cld; cldp is
\* released before cld is looked at
mkplan_release(ps, cldp, cld) == problem_destroy(ps, cldp)

\* the return below as it would be putting the flags back as they were
\* on entry
MkplanReturn_restore ==
    /\ stack # <<>>
    /\ Top.kind = "mkplan"
    /\ Top.pc = "solved"
    /\ probs' = mkplan_release(probs, Top.cldp, Top.cld)
    /\ flags' = Top.flags_in
    /\ LET result == IF Top.cld = 0 THEN 0 ELSE Len(plans) + 1
           below == SubSeq(stack, 1, Len(stack) - 1)
           caller == below[Len(below)]
       IN  /\ plans' = IF Top.cld = 0 THEN plans
                       ELSE Append(plans, mkplan_pln(Top.ego, Top.d, Top.cld,
                                                     plans[Top.cld]))
           /\ stack' = IF result = 0 THEN below
                       ELSE [below EXCEPT ![Len(below)] =
                               [caller EXCEPT !.cld = result, !.pc = "solved"]]
           /\ last' = [any |-> TRUE, ego |-> Top.ego, p |-> Top.p,
                       pval |-> Top.pval, applicable |-> TRUE,
                       sel |-> Top.sel, vdim |-> Top.vdim, d |-> Top.d, cldp |-> Top.cldp,
                       cld |-> Top.cld, result |-> result,
                       flags_in |-> Top.flags_in,
                       nplans_in |-> Top.nplans_in]
    /\ UNCHANGED <<p, picked, out>>
    /\ UNCHANGED execVars
    /\ UNCHANGED regVars
\* mkplan() from the return of MKPLAN to its own return
MkplanReturn ==
    /\ stack # <<>>
    /\ Top.kind = "mkplan"
    /\ Top.pc = "solved"
    /\ probs' = mkplan_release(probs, Top.cldp, Top.cld)
    /\ LET result == IF Top.cld = 0 THEN 0 ELSE Len(plans) + 1
           below == SubSeq(stack, 1, Len(stack) - 1)
           caller == below[Len(below)]
       IN  /\ plans' = IF Top.cld = 0 THEN plans
                       ELSE Append(plans, mkplan_pln(Top.ego, Top.d, Top.cld,
                                                     plans[Top.cld]))
           /\ stack' = IF result = 0 THEN below
                       ELSE [below EXCEPT ![Len(below)] =
                               [caller EXCEPT !.cld = result, !.pc = "solved"]]
           /\ last' = [any |-> TRUE, ego |-> Top.ego, p |-> Top.p,
                       pval |-> Top.pval, applicable |-> TRUE,
                       sel |-> Top.sel, vdim |-> Top.vdim, d |-> Top.d, cldp |-> Top.cldp,
                       cld |-> Top.cld, result |-> result,
                       flags_in |-> Top.flags_in,
                       nplans_in |-> Top.nplans_in]
    /\ UNCHANGED <<p, flags, picked, out>>
    /\ UNCHANGED execVars
    /\ UNCHANGED regVars

NextPlan ==
    \/ PlannerSkip
    \/ PlannerNoPlan
    \/ \E c \in 1..MaxCost : PlannerLeafPlan(c)
    \/ MkplanCall
    \/ MkplanReturn

SpecPlan == InitPlan /\ [][NextPlan]_vars

\* ------------------------------- harness: apply, destroy of a plan
\* A chain of vrank-geq1 plans over the plan of another solver, as nested
\* calls of mkplan make it: plans[1] is the innermost plan, plans[j + 1]
\* has child j, and the last plan is the root.  The root is applied to the
\* buffers of p, and it is destroyed.
ExecDims == {iodim(n, s[1], s[2]) : n \in Lens, s \in PlanStrides}
RECURSIVE ExecChains(_)
ExecChains(k) ==
    IF k = 0 THEN {<<LeafPlan(c)>> : c \in 1..MaxCost}
    ELSE {Append(ch, mkplan_pln(Registered[1], d, Len(ch), ch[Len(ch)])) :
            ch \in ExecChains(k - 1), d \in ExecDims}
\* buffers <<ri, ii, ro, io>>, far enough from 0 for every negative offset
ExecBuffers == {<<32, 33, 32, 33>>, <<32, 33, 64, 65>>}
Root == Len(plans)

InitExec ==
    /\ \E b \in ExecBuffers :
          p = mkproblem_dft_d(tensor(<<>>), tensor(<<>>), b[1], b[2], b[3], b[4])
    /\ \E k \in 1..MaxVRank : plans \in ExecChains(k)
    /\ ptrbits \in {UintBits, 2 * UintBits}
    /\ flags = {}
    /\ picked = {}
    /\ out = NoCall
    /\ probs = <<>>
    /\ stack = <<>>
    /\ last = NoReturn
    /\ phase = "idle"
    /\ xstack = <<>>
    /\ calls = <<>>
    /\ dlog = <<>>
    /\ RegistrationDone

\* i * ivs for uint i and int ivs: ivs is converted to uint and the
\* product is taken modulo 2^UintBits
uint_times_int(i, s) == (i * s) % UINT_MOD
\* pointer + uint offset, in elements, where pointers have ptrbits bits
ptr_add(a, off) == (a + off) % (2 ^ ptrbits)
\* apply(): the arguments of the call of the child's apply for counter i
apply_args(ego, i, a) ==
    <<ptr_add(a[1], uint_times_int(i, ego.ivs)),
      ptr_add(a[2], uint_times_int(i, ego.ivs)),
      ptr_add(a[3], uint_times_int(i, ego.ovs)),
      ptr_add(a[4], uint_times_int(i, ego.ovs))>>

XTop == xstack[Len(xstack)]
SetXTop(f) == [xstack EXCEPT ![Len(xstack)] = f]
PlanFrozen == UNCHANGED <<p, flags, picked, out, probs, plans, stack, last,
                          ptrbits, slvs, regi>>

\* the root plan's apply is called on the buffers of p
ApplyStart ==
    /\ phase = "idle"
    /\ xstack = <<>>
    /\ xstack' = <<[op |-> "apply", ego |-> Root, i |-> 0,
                    a |-> <<p.ri, p.ii, p.ro, p.io>>, pc |-> "loop"]>>
    /\ phase' = "applying"
    /\ UNCHANGED <<calls, dlog>>
    /\ PlanFrozen

\* apply(): one turn of the loop, the call of cldapply and ++i; a child
\* that is a vrank-geq1 plan runs apply in turn
ApplyCall ==
    /\ xstack # <<>>
    /\ XTop.op = "apply"
    /\ XTop.i < plans[XTop.ego].vl
    /\ LET ego == plans[XTop.ego]
           args == apply_args(ego, XTop.i, XTop.a)
           caller == [XTop EXCEPT !.i = (@ + 1) % UINT_MOD]
       IN  /\ calls' = Append(calls, [by |-> XTop.ego, cld |-> ego.cld,
                                      i |-> XTop.i, base |-> XTop.a,
                                      args |-> args])
           /\ xstack' = IF plans[ego.cld].kind = "vrank-geq1"
                        THEN Append(SetXTop(caller),
                                    [op |-> "apply", ego |-> ego.cld, i |-> 0,
                                     a |-> args, pc |-> "loop"])
                        ELSE SetXTop(caller)
    /\ UNCHANGED <<phase, dlog>>
    /\ PlanFrozen

\* apply(): the loop ends and apply returns
ApplyReturn ==
    /\ xstack # <<>>
    /\ XTop.op = "apply"
    /\ ~(XTop.i < plans[XTop.ego].vl)
    /\ xstack' = SubSeq(xstack, 1, Len(xstack) - 1)
    /\ phase' = IF Len(xstack) = 1 THEN "applied" ELSE phase
    /\ UNCHANGED <<calls, dlog>>
    /\ PlanFrozen

\* the root plan is destroyed: its destroy operation is called
DestroyStart ==
    /\ phase \in {"idle", "applied"}
    /\ xstack = <<>>
    /\ xstack' = <<[op |-> "destroy", ego |-> Root, i |-> 0,
                    a |-> <<0, 0, 0, 0>>, pc |-> "cld"]>>
    /\ dlog' = Append(dlog, [ev |-> "destroy", id |-> Root])
    /\ phase' = "destroying"
    /\ UNCHANGED calls
    /\ PlanFrozen

\* destroy() as it would be without destroying the child
DestroyChild_skip ==
    /\ xstack # <<>>
    /\ XTop.op = "destroy"
    /\ XTop.pc = "cld"
    /\ xstack' = SetXTop([XTop EXCEPT !.pc = "free"])
    /\ UNCHANGED <<phase, calls, dlog>>
    /\ PlanFrozen
\* destroy(): X(plan_destroy)(ego->cld) calls the child's destroy operation
DestroyChild ==
    /\ xstack # <<>>
    /\ XTop.op = "destroy"
    /\ XTop.pc = "cld"
    /\ LET cld == plans[XTop.ego].cld
           caller == [XTop EXCEPT !.pc = "free"]
       IN  /\ dlog' = Append(dlog, [ev |-> "destroy", id |-> cld])
           /\ xstack' = IF plans[cld].kind = "vrank-geq1"
                        THEN Append(SetXTop(caller),
                                    [op |-> "destroy", ego |-> cld, i |-> 0,
                                     a |-> <<0, 0, 0, 0>>, pc |-> "cld"])
                        ELSE SetXTop(caller)
    /\ UNCHANGED <<phase, calls>>
    /\ PlanFrozen

\* destroy(): X(free)(ego), and destroy returns
DestroyFree ==
    /\ xstack # <<>>
    /\ XTop.op = "destroy"
    /\ XTop.pc = "free"
    /\ dlog' = Append(dlog, [ev |-> "free", id |-> XTop.ego])
    /\ xstack' = SubSeq(xstack, 1, Len(xstack) - 1)
    /\ phase' = IF Len(xstack) = 1 THEN "destroyed" ELSE phase
    /\ UNCHANGED calls
    /\ PlanFrozen

\* the calls of awake made on the root plan so far
RootAwakes ==
    Cardinality({k \in 1..Len(dlog) :
                   dlog[k].ev = "awake" /\ dlog[k].id = Root})

\* the root plan's awake operation is called with flag flg
AwakeStart(flg) ==
    /\ phase \in {"idle", "applied"}
    /\ xstack = <<>>
    /\ RootAwakes < MaxAwake
    /\ xstack' = <<[op |-> "awake", ego |-> Root, flg |-> flg, pc |-> "cld"]>>
    /\ dlog' = Append(dlog, [ev |-> "awake", id |-> Root, flg |-> flg])
    /\ UNCHANGED <<phase, calls>>
    /\ PlanFrozen

\* awake() as it would be waking the child whatever flg is
AwakeChild_wake ==
    /\ xstack # <<>>
    /\ XTop.op = "awake"
    /\ XTop.pc = "cld"
    /\ LET cld == plans[XTop.ego].cld
           caller == [XTop EXCEPT !.pc = "ret"]
       IN  /\ dlog' = Append(dlog, [ev |-> "awake", id |-> cld, flg |-> 1])
           /\ xstack' = IF plans[cld].kind = "vrank-geq1"
                        THEN Append(SetXTop(caller),
                                    [op |-> "awake", ego |-> cld,
                                     flg |-> 1, pc |-> "cld"])
                        ELSE SetXTop(caller)
    /\ UNCHANGED <<phase, calls>>
    /\ PlanFrozen
\* awake(): AWAKE(ego->cld, flg) calls the child's awake operation
AwakeChild ==
    /\ xstack # <<>>
    /\ XTop.op = "awake"
    /\ XTop.pc = "cld"
    /\ LET cld == plans[XTop.ego].cld
           caller == [XTop EXCEPT !.pc = "ret"]
       IN  /\ dlog' = Append(dlog, [ev |-> "awake", id |-> cld,
                                    flg |-> XTop.flg])
           /\ xstack' = IF plans[cld].kind = "vrank-geq1"
                        THEN Append(SetXTop(caller),
                                    [op |-> "awake", ego |-> cld,
                                     flg |-> XTop.flg, pc |-> "cld"])
                        ELSE SetXTop(caller)
    /\ UNCHANGED <<phase, calls>>
    /\ PlanFrozen

\* awake() returns
AwakeReturn ==
    /\ xstack # <<>>
    /\ XTop.op = "awake"
    /\ XTop.pc = "ret"
    /\ xstack' = SubSeq(xstack, 1, Len(xstack) - 1)
    /\ UNCHANGED <<phase, calls, dlog>>
    /\ PlanFrozen

NextExec ==
    \/ ApplyStart
    \/ ApplyCall
    \/ ApplyReturn
    \/ DestroyStart
    \/ DestroyChild
    \/ DestroyFree
    \/ \E flg \in {0, 1} : AwakeStart(flg)
    \/ AwakeChild
    \/ AwakeReturn

SpecExec == InitExec /\ [][NextExec]_vars

\* --------------------------- harness: a session, mkplan and then apply
\* The planner is asked to solve p, as under SpecPlan; when it has
\* returned a vrank-geq1 plan, that plan is applied to the buffers of p.
SessionFlags == {{}, AllFlags}

InitSession ==
    /\ p \in PlanProblems
    /\ flags \in SessionFlags
    /\ picked = {}
    /\ out = NoCall
    /\ probs = <<[val |-> p, live |-> TRUE, ndestroy |-> 0]>>
    /\ plans = <<>>
    /\ stack = <<RootFrame(flags)>>
    /\ last = NoReturn
    /\ ptrbits \in {UintBits, 2 * UintBits}
    /\ phase = "idle"
    /\ xstack = <<>>
    /\ calls = <<>>
    /\ dlog = <<>>
    /\ RegistrationDone

\* the session's MKPLAN has returned a plan made by mkplan
Planned ==
    /\ Len(stack) = 1
    /\ Top.pc = "solved"
    /\ Top.cld # 0
    /\ plans[Top.cld].kind = "vrank-geq1"

\* the plan the session got is applied to the buffers of its problem
SessionApplyStart ==
    /\ Planned
    /\ Top.cld = Root
    /\ ApplyStart

NextSession ==
    \/ PlannerSkip
    \/ PlannerNoPlan
    \/ \E c \in 1..MaxCost : PlannerLeafPlan(c)
    \/ MkplanCall
    \/ MkplanReturn
    \/ SessionApplyStart
    \/ ApplyCall
    \/ ApplyReturn

SpecSession == InitSession /\ [][NextSession]_vars

\* ------------------------------ harness: registration, and then score
\* dft_vrank_geq1_register runs on a planner without solvers; once it has
\* returned the planner scores the registered solvers on its problem.
InitRegister ==
    /\ p \in ScoreProblems
    /\ flags \in SUBSET AllFlags
    /\ picked = {}
    /\ out = NoCall
    /\ probs = <<>>
    /\ plans = <<>>
    /\ stack = <<>>
    /\ last = NoReturn
    /\ ExecIdle
    /\ slvs = <<>>
    /\ regi = 0

\* dft_vrank_geq1_register(): one turn of the loop, REGISTER_SOLVER of
\* mksolver(buddies[i], buddies, nbuddies) and ++i
RegisterSolver ==
    /\ regi < nbuddies
    /\ slvs' = Append(slvs, mksolver(buddies[regi + 1], buddies, nbuddies))
    /\ regi' = (regi + 1) % UINT_MOD
    /\ UNCHANGED <<p, flags, picked, out, probs, plans, stack, last>>
    /\ UNCHANGED execVars

\* the planner scores the k-th of its solvers on p
RegisteredScoreCall(k) ==
    /\ ~(regi < nbuddies)
    /\ ScoreCall(slvs[k])

NextRegister ==
    \/ RegisterSolver
    \/ \E k \in 1..Len(slvs) : RegisteredScoreCall(k)

SpecRegister == InitRegister /\ [][NextRegister]_vars

\* ---------------- harness: a session with calls of applicable and score
\* The planner solves p as under SpecPlan, and once in the session, at any
\* point of it, applicable or score of a registered solver is called on p.
FrameFlags == {{}, AllFlags, {FORCE_VRECURSE, IMPATIENT}}

InitFrame ==
    /\ p \in PlanProblems
    /\ flags \in FrameFlags
    /\ picked = {}
    /\ out = NoCall
    /\ probs = <<[val |-> p, live |-> TRUE, ndestroy |-> 0]>>
    /\ plans = <<>>
    /\ stack = <<RootFrame(flags)>>
    /\ last = NoReturn
    /\ ExecIdle
    /\ RegistrationDone

NextFrame ==
    \/ PlannerSkip
    \/ PlannerNoPlan
    \/ \E c \in 1..MaxCost : PlannerLeafPlan(c)
    \/ MkplanCall
    \/ MkplanReturn
    \/ \E k \in 1..Len(slvs) : ApplicableCall(slvs[k])
    \/ \E k \in 1..Len(slvs) : ScoreCall(slvs[k])

SpecFrame == InitFrame /\ [][NextFrame]_vars

\* ========================================================= properties
\* ---- of applicable() and score(), under SpecScore

\* the arguments the selector is to be called with for solver ego
SelectorArgs(ego) == <<ego.vecloop_dim, <<1, -1>>, 2, p.vecsz, p.ri # p.ro>>
\* the selector was called so and answered with a dimension
Selected(ego) == {e[2].d : e \in {x \in picked : x[1] = SelectorArgs(ego) /\ x[2].ok}}
\* the problem is one the solver applies to
Selectable(ego) ==
    /\ p.kind = "dft"
    /\ p.vecsz.rnk # RNK_MINFTY
    /\ p.vecsz.rnk > 0
    /\ Selected(ego) # {}
\* the descriptor of the selected dimension
SelectedDim(ego) == p.vecsz.dims[(CHOOSE i \in Selected(ego) : TRUE) + 1]

\* C9: applicable succeeds exactly when the vector rank is finite and
\* positive and the selector, called with the solver's preferred
\* dimension, the candidate list, the vector shape and "input and output
\* buffers differ", succeeds; the index reported is the selector's.
C9_ApplicableIffSelected ==
    out.fn = "applicable" =>
        /\ out.res.ok <=> Selectable(out.ego)
        /\ out.res.ok => Selected(out.ego) = {out.res.dp}
C9_Witness ==
    /\ out.fn = "applicable"
    /\ out.res.ok
    /\ out.res.dp = 1
    /\ p.ri = p.ro

\* C2: score is BAD when applicable fails, and BAD whenever IMPATIENT is
\* set and the solver's preferred dimension is not the first candidate,
\* whatever FORCE_VRECURSE, the ranks and the strides are.
C2_ScoreBad ==
    out.fn = "score" =>
        /\ ~Selectable(out.ego) => out.res = BAD
        /\ (IMPATIENT \in flags /\ out.ego.vecloop_dim # 1) => out.res = BAD
C2_Witness ==
    /\ out.fn = "score"
    /\ Selectable(out.ego)
    /\ IMPATIENT \in flags
    /\ FORCE_VRECURSE \in flags
    /\ out.ego.vecloop_dim = -1
    /\ p.vecsz.rnk = 1
    /\ p.sz.rnk = 0
    /\ out.res = BAD

\* the tier the six rules give, first match first, under planner flags f
RuleTier(ego, f) ==
    IF ~Selectable(ego) THEN BAD
    ELSE IF IMPATIENT \in f /\ ego.vecloop_dim # 1 THEN BAD
    ELSE IF FORCE_VRECURSE \in f /\ p.vecsz.rnk = 1 THEN UGLY
    ELSE IF /\ p.sz.rnk > 1
            /\ \/ SelectedDim(ego).is < tensor_max_index(p.sz)
               \/ SelectedDim(ego).os < tensor_max_index(p.sz)
    THEN UGLY
    ELSE IF p.sz.rnk = 0 /\ p.vecsz.rnk = 1 THEN UGLY
    ELSE GOOD

Builds == {i \in 1..Len(stack) : stack[i].kind = "mkplan"}
\* a call of mkplan that reached its recursive solve has just returned
Returned == last.any /\ last.applicable

\* C5: a build on a problem of vector rank 1 with CLASSIC_VRECURSE set
\* has CLASSIC_VRECURSE and FORCE_VRECURSE cleared from its step 2 on,
\* during the recursive solve and when it returns, with or without a plan.
C5_FlagsConsumed ==
    /\ \A i \in Builds :
          (stack[i].pval.vecsz.rnk = 1
             /\ CLASSIC_VRECURSE \in stack[i].flags_in)
          => flags \cap {CLASSIC_VRECURSE, FORCE_VRECURSE} = {}
    /\ (Returned /\ last.pval.vecsz.rnk = 1
           /\ CLASSIC_VRECURSE \in last.flags_in)
       => flags \cap {CLASSIC_VRECURSE, FORCE_VRECURSE} = {}
C5_Witness ==
    /\ Returned
    /\ last.pval.vecsz.rnk = 1
    /\ {CLASSIC_VRECURSE, FORCE_VRECURSE} \subseteq last.flags_in
    /\ last.result = 0
    /\ flags \cap {CLASSIC_VRECURSE, FORCE_VRECURSE} = {}

\* C6: the problem a build hands to the recursive solve has the vector
\* rank of the original minus one, the original's core shape and four
\* addresses, and the original's vector dimensions in their order without
\* the one the selector reported; the original is left as it was.
C6_RankReduction ==
    \A i \in Builds :
        LET f == stack[i]
            q == f.pval
            c == probs[f.cldp].val
        IN  /\ f.sel.ok
            /\ f.vdim = f.sel.d
            /\ c.vecsz.rnk = q.vecsz.rnk - 1
            /\ Len(c.vecsz.dims) = c.vecsz.rnk
            /\ \A j \in 1..c.vecsz.rnk :
                  c.vecsz.dims[j] = q.vecsz.dims[IF j <= f.sel.d THEN j ELSE j + 1]
            /\ c.sz = q.sz
            /\ <<c.ri, c.ii, c.ro, c.io>> = <<q.ri, q.ii, q.ro, q.io>>
            /\ probs[f.p].live
            /\ probs[f.p].val = q
C6_Witness ==
    \E i \in Builds :
        /\ stack[i].pval.vecsz.rnk = 2
        /\ stack[i].sel.d = 1
        /\ stack[i].pval.vecsz.dims[1] # stack[i].pval.vecsz.dims[2]
        /\ probs[stack[i].cldp].val.vecsz.dims = <<stack[i].pval.vecsz.dims[1]>>
        /\ stack[i].pval.sz.rnk = 1

\* C8: every build in progress is on a problem of finite vector rank >= 1
\* and solves a problem of rank one less, so the builds nested in a
\* session on a problem of vector rank r are at most r; a build on a
\* problem of rank 0 or of infinite rank returns without a recursive solve.
C8_RankDecreases ==
    /\ \A i \in Builds :
          /\ stack[i].pval.vecsz.rnk # RNK_MINFTY
          /\ stack[i].pval.vecsz.rnk >= 1
          /\ probs[stack[i].cldp].val.vecsz.rnk = stack[i].pval.vecsz.rnk - 1
          /\ stack[i].p = stack[i - 1].cldp
    /\ Builds # {} => (p.kind = "dft" /\ p.vecsz.rnk # RNK_MINFTY
                         /\ Cardinality(Builds) <= p.vecsz.rnk)
    /\ (last.any /\ last.pval.kind = "dft"
           /\ last.pval.vecsz.rnk \in {0, RNK_MINFTY})
       => (~last.applicable /\ last.result = 0 /\ last.cldp = 0)
C8_Witness ==
    /\ p.kind = "dft"
    /\ p.vecsz.rnk = 2
    /\ Cardinality(Builds) = 2
    /\ last.any
    /\ last.pval.vecsz.rnk = 0
    /\ ~last.applicable

\* C10: when the recursive solve returns no plan the build returns no plan
\* and allocates none; the reduced problem is live throughout the
\* recursive solve and has been released exactly once when the build
\* returns, on either path; the plan returned holds its child and no
\* problem.
C10_ReducedProblemReleased ==
    /\ \A i \in Builds :
          /\ probs[stack[i].cldp].live
          /\ probs[stack[i].cldp].ndestroy = 0
    /\ Returned =>
          /\ ~probs[last.cldp].live
          /\ probs[last.cldp].ndestroy = 1
          /\ last.cld = 0 => (last.result = 0 /\ Len(plans) = last.nplans_in)
          /\ last.cld # 0 =>
                /\ last.result = Len(plans)
                /\ plans[last.result].cld = last.cld
                /\ DOMAIN plans[last.result] =
                     {"kind", "cld", "vl", "ivs", "ovs", "solver", "ops", "pcost"}
C10_Witness ==
    /\ Returned
    /\ last.cld = 0
    /\ last.result = 0
    /\ probs[last.cldp].ndestroy = 1
    /\ last.pval.vecsz.rnk = 2

\* ---- of mkplan(), second part, under SpecPlan

\* a call of mkplan has just returned on a problem applicable() rejects:
\* not a DFT problem, of infinite or zero vector rank, or one the
\* selector fails on
ReturnedInapplicable ==
    /\ last.any
    /\ \/ last.pval.kind # "dft"
       \/ last.pval.vecsz.rnk = RNK_MINFTY
       \/ last.pval.vecsz.rnk = 0
       \/ ~last.sel.ok

\* C11: when applicability fails, the build returns no plan, creates no
\* reduced problem, does not invoke the recursive solve, and leaves every
\* planner flag as it was on entry.
C11_InapplicableNoEffect ==
    [][ReturnedInapplicable' =>
          /\ last'.result = 0
          /\ last'.cldp = 0
          /\ probs' = probs
          /\ plans' = plans
          /\ Len(stack') = Len(stack)
          /\ Top'.pc = "solve"
          /\ flags' = flags
          /\ flags' = last'.flags_in]_vars
C11_Witness ==
    /\ ReturnedInapplicable
    /\ last.pval.kind = "dft"
    /\ last.pval.vecsz.rnk = 1
    /\ last.pval.vecsz.dims[1].n > 0
    /\ alignment_of(last.pval.ii) # 0
    /\ ~last.sel.ok
    /\ flags = {CLASSIC_VRECURSE, FORCE_VRECURSE, IMPATIENT}
    /\ last.result = 0

\* a call of mkplan has passed its steps 2 and 3 in this step and is at
\* its recursive solve
Entered == Len(stack') = Len(stack) + 1
\* the vector loop over dimension d of problem q would leave one of the
\* four addresses misaligned
Misaligned(q, d) ==
    /\ d.n > 0
    /\ \E a \in {q.ri + d.is, q.ii + d.is, q.ro + d.os, q.io + d.os} :
          alignment_of(a) # 0

\* C15: on an applicable problem the build sets POSSIBLY_UNALIGNED exactly
\* when the selected dimension's length is > 0 and one of input real +
\* input stride, input imaginary + input stride, output real + output
\* stride, output imaginary + output stride is misaligned; otherwise it
\* leaves the flag as it was; it never clears it.
C15_Unaligned ==
    [][/\ Entered =>
            LET q == Top'.pval
                d == q.vecsz.dims[Top'.sel.d + 1]
            IN  /\ Misaligned(q, d) => POSSIBLY_UNALIGNED \in flags'
                /\ ~Misaligned(q, d) =>
                      (POSSIBLY_UNALIGNED \in flags'
                         <=> POSSIBLY_UNALIGNED \in flags)
       /\ POSSIBLY_UNALIGNED \in flags => POSSIBLY_UNALIGNED \in flags']_vars
\* the output alone is misaligned and the flag gets set
C15_Witness ==
    /\ stack # <<>>
    /\ Top.kind = "mkplan"
    /\ Top.next = 1
    /\ POSSIBLY_UNALIGNED \notin Top.flags_in
    /\ POSSIBLY_UNALIGNED \in flags
    /\ Top.d.n > 0
    /\ alignment_of(Top.pval.ri + Top.d.is) = 0
    /\ alignment_of(Top.pval.ii + Top.d.is) = 0
    /\ alignment_of(Top.pval.ro + Top.d.os) # 0
\* a dimension of length 0 with misaligned addresses leaves the flag unset
UnalignedLengthZero ==
    /\ stack # <<>>
    /\ Top.kind = "mkplan"
    /\ Top.next = 1
    /\ Top.d.n = 0
    /\ alignment_of(Top.pval.ii + Top.d.is) # 0
    /\ POSSIBLY_UNALIGNED \notin flags

\* the flags a build that entered with flags fin on problem q, selected
\* dimension d, has after its steps 2 and 3
FlagsUpdated(fin, q, d) ==
    (IF q.vecsz.rnk = 1 /\ CLASSIC_VRECURSE \in fin
     THEN fin \ {CLASSIC_VRECURSE, FORCE_VRECURSE} ELSE fin)
    \cup (IF Misaligned(q, d) THEN {POSSIBLY_UNALIGNED} ELSE {})
\* flags g carry what the updates of a build (fin, q, d) did
Carries(g, fin, q, d) ==
    /\ POSSIBLY_UNALIGNED \in FlagsUpdated(fin, q, d)
          => POSSIBLY_UNALIGNED \in g
    /\ CLASSIC_VRECURSE \notin FlagsUpdated(fin, q, d)
          => CLASSIC_VRECURSE \notin g
    /\ FORCE_VRECURSE \notin FlagsUpdated(fin, q, d)
          => FORCE_VRECURSE \notin g
\* what holds of the flags while builds are in progress and when one returns
UpdatesVisible ==
    /\ \A i \in Builds :
          /\ Carries(flags, stack[i].flags_in, stack[i].pval, stack[i].d)
          /\ \A j \in Builds : j > i =>
                Carries(stack[j].flags_in,
                        stack[i].flags_in, stack[i].pval, stack[i].d)
    /\ Returned => Carries(flags, last.flags_in, last.pval, last.d)
    /\ (last.any /\ ~last.applicable) =>
          \A i \in Builds :
             Carries(last.flags_in,
                     stack[i].flags_in, stack[i].pval, stack[i].d)

\* C16: the flag updates of a build are made before its recursive solve,
\* so what is scored or built during that solve sees them; the build does
\* not put the flags back, so they stay as updated for the solvers tried
\* later in the session, also when the build returned no plan.
C16_FlagsPersist ==
    [][/\ UpdatesVisible'
       /\ Entered =>
             /\ Top'.flags_in = flags
             /\ flags' = FlagsUpdated(flags, Top'.pval, Top'.d)
       /\ Returned' => flags' = flags
       /\ POSSIBLY_UNALIGNED \in flags => POSSIBLY_UNALIGNED \in flags'
       /\ CLASSIC_VRECURSE \notin flags => CLASSIC_VRECURSE \notin flags'
       /\ FORCE_VRECURSE \notin flags => FORCE_VRECURSE \notin flags']_vars
\* an abandoned build has returned, its updates are in the flags, and the
\* planner has a solver left to try on the same problem
C16_Witness ==
    /\ Returned
    /\ last.result = 0
    /\ {CLASSIC_VRECURSE, FORCE_VRECURSE} \subseteq last.flags_in
    /\ POSSIBLY_UNALIGNED \notin last.flags_in
    /\ flags \cap {CLASSIC_VRECURSE, FORCE_VRECURSE, POSSIBLY_UNALIGNED}
         = {POSSIBLY_UNALIGNED}
    /\ Top.pc = "solve"
    /\ Top.next = 2
    /\ Top.cldp = last.p
\* an inapplicable call made during the recursive solve of a build saw the
\* flag the build had set
SeenDuringSolve ==
    /\ last.any
    /\ ~last.applicable
    /\ Builds # {}
    /\ POSSIBLY_UNALIGNED \notin stack[1].flags_in
    /\ POSSIBLY_UNALIGNED \in last.flags_in

\* ---- of dft_vrank_geq1_register(), under SpecRegister

\* C13: registration adds two solvers to the planner, of preferred
\* dimension 1 and then -1, both with the candidate list [1, -1]; so with
\* IMPATIENT set the solver of preferred dimension -1 scores BAD on every
\* problem and only the solver of preferred dimension 1 scores UGLY or GOOD.
C13_Registration ==
    /\ Len(slvs) <= 2
    /\ \A k \in 1..Len(slvs) :
          slvs[k] = [vecloop_dim |-> <<1, -1>>[k], buddies |-> <<1, -1>>,
                     nbuddies |-> 2]
    /\ ~(regi < nbuddies) => Len(slvs) = 2
    /\ out.fn = "score" =>
          /\ Len(slvs) = 2
          /\ out.ego \in {slvs[1], slvs[2]}
          /\ IMPATIENT \in flags =>
                /\ out.ego = slvs[2] => out.res = BAD
                /\ out.res \in {UGLY, GOOD} => out.ego = slvs[1]
C13_Witness ==
    /\ out.fn = "score"
    /\ IMPATIENT \in flags
    /\ out.ego = slvs[2]
    /\ out.ego.vecloop_dim = -1
    /\ p.kind = "dft"
    /\ p.vecsz.rnk = 2
    /\ p.sz.rnk = 1
    /\ Selected(out.ego) # {}
    /\ out.res = BAD

\* ---- of mkplan() and apply() together, under SpecSession

\* the plan the session's planner returned is the last one allocated
SessionRootIsLast == (Len(stack) = 1 /\ Top.pc = "solved" /\ Top.cld # 0)
                     => Top.cld = Len(plans)

\* C12: the plan a successful build returns has the plan of the recursive
\* solve as its child, the selected dimension's length as iteration count
\* and its strides as strides, the child's operation count and cost
\* estimate times the iteration count; with a selected dimension of length
\* 0 its cost is 0 and it never runs its child.
C12_PlanFields ==
    /\ (Returned /\ last.result # 0) =>
          LET pl == plans[last.result]
              ch == plans[last.cld]
              d == last.pval.vecsz.dims[last.sel.d + 1]
          IN  /\ pl.cld = last.cld
              /\ pl.vl = d.n
              /\ pl.ivs = d.is
              /\ pl.ovs = d.os
              /\ pl.ops = d.n * ch.ops
              /\ pl.pcost = d.n * ch.pcost
              /\ d.n = 0 => (pl.pcost = 0 /\ pl.ops = 0)
    /\ \A k \in 1..Len(calls) : plans[calls[k].by].vl > 0
    /\ (phase = "applied" /\ plans[Root].vl = 0) => calls = <<>>
C12_Witness ==
    /\ phase = "applied"
    /\ plans[Root].vl = 0
    /\ plans[Root].pcost = 0
    /\ plans[plans[Root].cld].pcost > 0
    /\ calls = <<>>

\* the index tuples of the vector shape of p: one index below the length
\* for each dimension
IndexTuples ==
    {t \in [1..p.vecsz.rnk -> 0..(MaxLen - 1)] :
        \A k \in 1..p.vecsz.rnk : t[k] < p.vecsz.dims[k].n}
RECURSIVE InputOffset(_, _)
InputOffset(t, k) ==
    IF k = 0 THEN 0 ELSE t[k] * p.vecsz.dims[k].is + InputOffset(t, k - 1)
RECURSIVE OutputOffset(_, _)
OutputOffset(t, k) ==
    IF k = 0 THEN 0 ELSE t[k] * p.vecsz.dims[k].os + OutputOffset(t, k - 1)
\* the addresses of index tuple t
TupleAddresses(t) ==
    <<p.ri + InputOffset(t, p.vecsz.rnk), p.ii + InputOffset(t, p.vecsz.rnk),
      p.ro + OutputOffset(t, p.vecsz.rnk), p.io + OutputOffset(t, p.vecsz.rnk)>>
\* the calls made of the innermost plan, which is not of this family
LeafCalls == {k \in 1..Len(calls) : plans[calls[k].cld].kind = "leaf"}
\* every dimension of p was peeled by a build of this family and the plan
\* has been applied
PeeledAndApplied ==
    /\ phase = "applied"
    /\ p.kind = "dft"
    /\ Len(plans) = p.vecsz.rnk + 1
\* the innermost plan was called once for each index tuple, on its addresses
OncePerTuple ==
    /\ Cardinality(LeafCalls) = Cardinality(IndexTuples)
    /\ \A t \in IndexTuples :
          Cardinality({k \in LeafCalls : calls[k].args = TupleAddresses(t)})
            = Cardinality({u \in IndexTuples :
                             TupleAddresses(u) = TupleAddresses(t)})

\* C18: the plan of r nested builds on a problem of vector rank r, applied
\* once, calls the innermost plan n_1 * ... * n_r times, once for each
\* index tuple, on the base addresses advanced by the sum of index times
\* stride over the dimensions, in whatever order they were peeled.
C18_NestedLoops == PeeledAndApplied => OncePerTuple
\* the same where no stride is negative or pointers are as wide as uint
NestedLoopsUnlessNegativeWide ==
    (/\ PeeledAndApplied
     /\ \/ ptrbits = UintBits
        \/ \A k \in 1..p.vecsz.rnk :
              p.vecsz.dims[k].is >= 0 /\ p.vecsz.dims[k].os >= 0)
    => OncePerTuple
\* the number of calls of the innermost plan is the product of the lengths
NestedLoopsCount ==
    PeeledAndApplied => Cardinality(LeafCalls) = Cardinality(IndexTuples)
\* two dimensions of different strides peeled in the order given and in
\* the other order, both applied
NestedBothOrders ==
    /\ PeeledAndApplied
    /\ p.vecsz.rnk = 2
    /\ p.vecsz.dims[1] # p.vecsz.dims[2]
    /\ p.vecsz.dims[1].n > 0
    /\ p.vecsz.dims[2].n > 0
    /\ plans[Root].ivs = p.vecsz.dims[2].is
    /\ plans[Root].ovs = p.vecsz.dims[2].os
    /\ plans[Root].ivs # p.vecsz.dims[1].is

\* ---- of applicable(), score() and mkplan(), under SpecFrame

\* C19: applicable and score modify neither the planner flags nor the
\* problem; the build's own code changes the flags only by clearing
\* CLASSIC_VRECURSE and FORCE_VRECURSE together and by setting
\* POSSIBLY_UNALIGNED: it never changes IMPATIENT, never sets
\* CLASSIC_VRECURSE or FORCE_VRECURSE, and leaves FORCE_VRECURSE alone
\* when CLASSIC_VRECURSE is not set or the vector rank is not 1.
C19_FrameEffect ==
    [][/\ out' # out => (flags' = flags /\ p' = p /\ probs' = probs)
       /\ p' = p
       /\ \A i \in Builds' :
             /\ probs'[stack'[i].p].live
             /\ probs'[stack'[i].p].val = stack'[i].pval
       /\ (last'.any /\ ~last'.applicable) =>
             (flags' = flags /\ probs' = probs)
       /\ Returned' => flags' = flags
       /\ Entered =>
             LET q == Top'.pval
             IN  /\ IMPATIENT \in flags' <=> IMPATIENT \in flags
                 /\ flags' \ flags \subseteq {POSSIBLY_UNALIGNED}
                 /\ flags \ flags' \in {{}, {CLASSIC_VRECURSE},
                                        {CLASSIC_VRECURSE, FORCE_VRECURSE}}
                 /\ CLASSIC_VRECURSE \in flags \ flags'
                       => FORCE_VRECURSE \notin flags'
                 /\ (CLASSIC_VRECURSE \notin flags \/ q.vecsz.rnk # 1) =>
                       /\ FORCE_VRECURSE \in flags' <=> FORCE_VRECURSE \in flags
                       /\ CLASSIC_VRECURSE \in flags'
                            <=> CLASSIC_VRECURSE \in flags]_vars
\* score has been called, and a build on a problem of vector rank 1 with
\* FORCE_VRECURSE set and CLASSIC_VRECURSE not set is at its recursive solve
C19_Witness ==
    /\ out.fn = "score"
    /\ stack # <<>>
    /\ Top.kind = "mkplan"
    /\ Top.next = 1
    /\ Top.pval.vecsz.rnk = 1
    /\ Top.flags_in = {FORCE_VRECURSE, IMPATIENT}
    /\ flags = {FORCE_VRECURSE, IMPATIENT, POSSIBLY_UNALIGNED}

\* ---- of apply() and destroy(), under SpecExec

\* the calls the root plan has made of its child's apply
RootCalls == SelectSeq(calls, LAMBDA c : c.by = Root)

\* C1: applying a plan with vl = N, ivs = si, ovs = so calls the child's
\* apply N times, for i = 0..N-1 in ascending order, call i with the input
\* addresses advanced by i*si and the output addresses by i*so, always on
\* the plan's own child.
C1_ApplyIteration ==
    /\ \A k \in 1..Len(calls) :
          LET c == calls[k]
              ego == plans[c.by]
          IN  /\ c.cld = ego.cld
              /\ c.args = <<c.base[1] + c.i * ego.ivs, c.base[2] + c.i * ego.ivs,
                            c.base[3] + c.i * ego.ovs, c.base[4] + c.i * ego.ovs>>
    /\ \A k \in 1..Len(RootCalls) : RootCalls[k].i = k - 1
    /\ Len(RootCalls) <= plans[Root].vl
    /\ phase = "applied" => Len(RootCalls) = plans[Root].vl

\* the part of C1 that does not depend on the offsets: the number and
\* order of the calls and the child they are made on
ApplyCountAndOrder ==
    /\ \A k \in 1..Len(calls) : calls[k].cld = plans[calls[k].by].cld
    /\ \A k \in 1..Len(RootCalls) : RootCalls[k].i = k - 1
    /\ Len(RootCalls) <= plans[Root].vl
    /\ phase = "applied" => Len(RootCalls) = plans[Root].vl
\* the offsets are the signed products unless a stride is negative and
\* pointers are wider than uint
ApplyOffsetsUnlessNegativeWide ==
    \A k \in 1..Len(calls) :
        LET c == calls[k]
            ego == plans[c.by]
        IN  (ptrbits = UintBits \/ c.i = 0 \/ (ego.ivs >= 0 /\ ego.ovs >= 0))
            => c.args = <<c.base[1] + c.i * ego.ivs, c.base[2] + c.i * ego.ivs,
                          c.base[3] + c.i * ego.ovs, c.base[4] + c.i * ego.ovs>>

\* C14: in apply(), for every negative stride and every counter i with
\* 0 < i < vl, the displacement of the address passed to the child from
\* the base address is the signed product i * stride, a negative number:
\* the product of the unsigned counter and the signed stride does not
\* become a large positive displacement.
C14_SignedOffsets ==
    \A k \in 1..Len(calls) :
        LET c == calls[k]
            ego == plans[c.by]
        IN  (0 < c.i /\ c.i < ego.vl) =>
              /\ ego.ivs < 0 => /\ c.args[1] - c.base[1] = c.i * ego.ivs
                                /\ c.args[2] - c.base[2] = c.i * ego.ivs
              /\ ego.ovs < 0 => /\ c.args[3] - c.base[3] = c.i * ego.ovs
                                /\ c.args[4] - c.base[4] = c.i * ego.ovs
\* where pointers are as wide as uint the wrapped product displaces the
\* address as the signed product does
SignedOffsetsWhenNarrow ==
    ptrbits = UintBits =>
       \A k \in 1..Len(calls) :
          LET c == calls[k]
              ego == plans[c.by]
          IN  /\ c.args[1] - c.base[1] = c.i * ego.ivs
              /\ c.args[3] - c.base[3] = c.i * ego.ovs

\* the places in dlog of an event
Events(ev, id) == {k \in 1..Len(dlog) : dlog[k] = [ev |-> ev, id |-> id]}
LoopPlans == {id \in 1..Len(plans) : plans[id].kind = "vrank-geq1"}

\* C7: destroying a vrank-geq1 plan destroys its child once and then
\* frees the plan; destroying the root of N nested vrank-geq1 plans
\* performs N destroy operations of such plans, one on each, and none twice.
C7_DestroyOnce ==
    /\ \A id \in 1..Len(plans) :
          /\ Cardinality(Events("destroy", id)) <= 1
          /\ Cardinality(Events("free", id)) <= 1
    /\ \A id \in LoopPlans : \A k \in Events("free", id) :
          \E a \in Events("destroy", id) :
             \E b \in Events("destroy", plans[id].cld) : a < b /\ b < k
    /\ phase = "destroyed" =>
          /\ \A id \in 1..Len(plans) : Cardinality(Events("destroy", id)) = 1
          /\ \A id \in LoopPlans : Cardinality(Events("free", id)) = 1
          /\ Cardinality({k \in 1..Len(dlog) :
                            dlog[k].ev = "destroy" /\ dlog[k].id \in LoopPlans})
               = Len(plans) - 1
C7_Witness ==
    /\ phase = "destroyed"
    /\ Cardinality(LoopPlans) = 2
    /\ calls # <<>>

\* the flags of the awake calls plan id has got, in order
AwakeSeen(id) ==
    LET evs == SelectSeq(dlog, LAMBDA e : e.ev = "awake" /\ e.id = id)
    IN  [k \in 1..Len(evs) |-> evs[k].flg]
\* the calls of awake in progress
Waking == {k \in 1..Len(xstack) : xstack[k].op = "awake"}

\* C17: an awake call on a vrank-geq1 plan is passed to its child once,
\* with the same flag, and changes no field of the plan; on a chain, the
\* calls on the root reach every plan down to the innermost one, which
\* sees the sequence of flags the root got.
C17_AwakeForwarded ==
    [][/\ \A id \in LoopPlans :
             LET own == AwakeSeen(id)'
                 cld == AwakeSeen(plans[id].cld)'
             IN  /\ Len(cld) <= Len(own)
                 /\ Len(own) <= Len(cld) + 1
                 /\ cld = SubSeq(own, 1, Len(cld))
                 /\ Waking' = {} => cld = own
       /\ Waking' = {} => AwakeSeen(1)' = AwakeSeen(Root)'
       /\ (Waking # {} \/ Waking' # {}) => plans' = plans]_vars
C17_Witness ==
    /\ Waking = {}
    /\ Cardinality(LoopPlans) = 2
    /\ AwakeSeen(Root) = <<1, 0>>
    /\ AwakeSeen(1) = <<1, 0>>
    /\ phase = "applied"

====
